---- MODULE Spec2Model ----
(***************************************************************************)
(* envsync: reconciliation of a workstation against envsync.yaml.          *)
(* The model covers the sync command (src/commands/sync.ts), the diff      *)
(* command (diff.ts), the health check (try.ts), the update command        *)
(* (update.ts) and the probes and helpers of src/utils/system.ts they      *)
(* call.  Strings the code takes apart                                     *)
(* (package specifiers, version strings) are sequences of one-character    *)
(* strings; other strings are opaque.                                      *)
(***************************************************************************)
EXTENDS Integers, Sequences, FiniteSets, TLC

\* JavaScript null / undefined, for values that are strings in the model
NULL == "null"

\* An optional value: None when missing (undefined, no such file), else Some(x)
None == {}
Some(x) == {x}
The(o) == CHOOSE x \in o : TRUE

(***************************************************************************)
(* Bounds                                                                  *)
(***************************************************************************)
\* declared entries of a manifest: global tools + extensions + scripts
MaxItems == 2
\* length of the specifier strings the parser is exercised on
MaxLen == 4

(***************************************************************************)
(* String helpers (String.prototype.split / startsWith / replace)          *)
(***************************************************************************)
StartsWith(s, c) == Len(s) > 0 /\ s[1] = c

IndexOf(s, c) ==
  IF \E i \in 1..Len(s) : s[i] = c
    THEN CHOOSE i \in 1..Len(s) : s[i] = c /\ \A j \in 1..(i - 1) : s[j] # c
    ELSE 0

Includes(s, c) == IndexOf(s, c) # 0

RECURSIVE Split(_, _)
Split(s, sep) ==
  IF IndexOf(s, sep) = 0
    THEN <<s>>
    ELSE <<SubSeq(s, 1, IndexOf(s, sep) - 1)>>
           \o Split(SubSeq(s, IndexOf(s, sep) + 1, Len(s)), sep)

\* stdout.replace('v', ''): drops the first 'v' only
ReplaceFirst(s, c) ==
  IF IndexOf(s, c) = 0
    THEN s
    ELSE SubSeq(s, 1, IndexOf(s, c) - 1) \o SubSeq(s, IndexOf(s, c) + 1, Len(s))

(***************************************************************************)
(* Names that occur in the manifests and on the machines of the model      *)
(***************************************************************************)
AngularCli == <<"@", "a", "n", "g", "u", "l", "a", "r", "/", "c", "l", "i">>
Tag17 == <<"1", "7", ".", "1", ".", "0">>
Latest == <<"l", "a", "t", "e", "s", "t">>
Nx == <<"n", "x">>
Ng == <<"n", "g">>
Pnpm == <<"p", "n", "p", "m">>

V20 == <<"2", "0", ".", "1", "1", ".", "1">>
V18 == <<"1", "8", ".", "1", "9", ".", "0">>

\* the four shapes of a global-tool specifier
Specifiers ==
  { Nx, Nx \o <<"@">> \o Latest, AngularCli, AngularCli \o <<"@">> \o Tag17 }

ExtIds == {"angular.ng-template", "esbenp.prettier-vscode"}

\* lifecycle scripts, as the words separated by single blanks
Lint == <<"npm", "run", "lint">>
AuditFix == <<"npm", "audit", "fix">>
Husky == <<"npx", "husky", "install">>
Build == <<"npm", "run", "build">>
PreScripts == {Lint, AuditFix}
PostScripts == {AuditFix, Husky, Build}

(***************************************************************************)
(* extractPackageName and the probes of utils/system.ts                    *)
(***************************************************************************)
\* a parser without the scoped branch: pkg.split('@')[0] for every specifier
extractPackageNameUnscoped(p) == Split(p, "@")[1]

extractPackageName(p) ==
  IF StartsWith(p, "@")
    THEN <<"@">> \o Split(p, "@")[2]
    ELSE Split(p, "@")[1]

commandMap ==
  ( AngularCli :> Ng )
  @@ ( <<"a", "n", "g", "u", "l", "a", "r", "/", "c", "l", "i">> :> Ng )
  @@ ( Nx :> Nx )
  @@ ( <<"@", "n", "e", "s", "t", "j", "s", "/", "c", "l", "i">> :> <<"n", "e", "s", "t">> )
  @@ ( <<"n", "e", "s", "t", "j", "s", "/", "c", "l", "i">> :> <<"n", "e", "s", "t">> )
  @@ ( <<"@", "v", "u", "e", "/", "c", "l", "i">> :> <<"v", "u", "e">> )
  @@ ( <<"v", "u", "e", "/", "c", "l", "i">> :> <<"v", "u", "e">> )
  @@ ( <<"t", "y", "p", "e", "s", "c", "r", "i", "p", "t">> :> <<"t", "s", "c">> )
  @@ ( <<"t", "s", "-", "n", "o", "d", "e">> :> <<"t", "s", "-", "n", "o", "d", "e">> )

\* commandMap[packageName] || packageName
CommandOf(name) ==
  IF name \in DOMAIN commandMap THEN commandMap[name] ELSE name

VARIABLES
  config,          \* the parsed envsync.yaml (EnvSyncConfig), never written by sync
  nodeStdout,      \* stdout of `node --version`, None when node cannot be run
  nvmInstalled,    \* the version manager answers
  nvmVersions,     \* versions registered with the version manager
  nvmrc,           \* content of the .nvmrc pin file, None when there is none
  pathCommands,    \* commands that run from PATH (or node_modules/.bin)
  nodeModules,     \* None: no node_modules directory; else the packages in it
  codeCLI,         \* the `code` command is available
  codeExtensions,  \* extensions listed by `code --list-extensions`
  packageJson,     \* None: no package.json; else the dependencies it declares
  pc,              \* position of the running command
  idx,             \* index of the current entry of the list being walked
  hasErrors,       \* sync.ts:45
  issues,          \* sync.ts:46
  log,             \* one record per step that reached a terminal outcome
  overallStatus,   \* the summary branch taken (sync.ts:326-340)
  exitCode,        \* process exit code, None while running
  pkg,             \* the argument of a call of extractPackageName
  packageName,     \* what that call returned, None before it returns
  probeCall,       \* a call of one probe and its answer, None before the call
  invoked,         \* the command the process was started with (index.ts)
  manifestExists,  \* existsSync('envsync.yaml')
  differences,     \* the records of diffCommand (diff.ts:35-40)
  angularJson,     \* existsSync('angular.json')
  healthScore,     \* try.ts:34
  band,            \* the environment status tryCommand printed (try.ts:245-247)
  previous,        \* the records of the diff run before this one, None if none
  angularCore,     \* the '@angular/core' range in package.json, None if none
  lockfiles,       \* which of pnpm-lock.yaml and yarn.lock exist
  updates,         \* the fields updateCommand found a change for (update.ts:61)
  written          \* what updateCommand wrote to envsync.yaml, None if nothing

machineVars ==
  <<nodeStdout, nvmInstalled, nvmVersions, nvmrc, pathCommands, nodeModules,
    codeCLI, codeExtensions, packageJson>>
syncVars == <<pc, idx, hasErrors, issues, log, overallStatus, exitCode>>
parseVars == <<pkg, packageName, probeCall>>
callVars == <<invoked, manifestExists>>
diffVars == <<differences, previous>>
tryVars == <<angularJson, healthScore, band>>
updateVars == <<angularCore, lockfiles, updates, written>>
\* what syncCommand neither reads after its first lines nor writes
outsideSync == <<callVars, diffVars, tryVars, updateVars>>
vars ==
  <<config, machineVars, syncVars, parseVars, callVars, diffVars, tryVars,
    updateVars>>

\* execa(command, ['--version']) resolves
Runs(command) == command # <<>> /\ command \in pathCommands

\* existsSync(join(cwd, 'node_modules', name)); join drops an empty name
hasLocalPackage(name) ==
  /\ nodeModules # None
  /\ (name = <<>> \/ name \in The(nodeModules))

hasGlobalPackage(p) ==
  LET name == extractPackageName(p)
      command == CommandOf(name)
  IN  IF Runs(command) THEN TRUE ELSE hasLocalPackage(name)

hasPackageManager(pm) == Runs(pm)

getCurrentNodeVersion ==
  IF nodeStdout = None THEN None ELSE Some(ReplaceFirst(The(nodeStdout), "v"))

hasNVM == nvmInstalled

isNodeVersionInstalled(version) == version \in nvmVersions

hasVSCodeCLI == codeCLI

\* stdout.includes(extension); the ids of the model are no substrings of
\* one another, so this is membership in the listed extensions
hasVSCodeExtension(ext) == codeCLI /\ ext \in codeExtensions

(***************************************************************************)
(* Manifests and machines of the model                                     *)
(***************************************************************************)
\* lists without repetition, at most n long
ListsOver(S, n) ==
  { s \in UNION { [1..k -> S] : k \in 0..n } :
      \A i, j \in DOMAIN s : i # j => s[i] # s[j] }

\* dependencies.global is unique by base name
ToolLists ==
  { s \in ListsOver(Specifiers, MaxItems) :
      \A i, j \in DOMAIN s :
        i # j => extractPackageName(s[i]) # extractPackageName(s[j]) }

Size(list) == IF list = None THEN 0 ELSE Len(The(list))

\* list && list.length > 0
Declared(list) == list # None /\ Len(The(list)) > 0

Optional(S) == {None} \cup { Some(x) : x \in S }

\* project.type: 'angular' is the one value the type admits; yaml.parse
\* checks nothing, so a file can carry another one
Angular == "angular"
ProjectTypes == {Angular, "react"}

\* EnvSyncConfig (types/index.types.ts), optional sections None when missing
Manifests ==
  { m \in [ name : {"app"},
            type : {Angular},
            angularVersion : {Some(Tag17)},
            node : {V20},
            packageManager : {Pnpm \o <<"@">> \o Latest},
            global : ToolLists,
            vscode : Optional(ListsOver(ExtIds, MaxItems)),
            preSync : Optional(ListsOver(PreScripts, MaxItems) \ {<<>>}),
            postSync : Optional(ListsOver(PostScripts, MaxItems) \ {<<>>}) ] :
      Len(m.global) + Size(m.vscode) + Size(m.preSync) + Size(m.postSync)
        <= MaxItems }

Range(list) ==
  IF list = None THEN {} ELSE { The(list)[i] : i \in DOMAIN The(list) }

\* [pm, pmVersion] = packageManager.includes("@") ? split("@") : [pm, "latest"]
PmName(m) ==
  IF Includes(m.packageManager, "@")
    THEN Split(m.packageManager, "@")[1]
    ELSE m.packageManager

\* the commands a manifest can look for or install
Footprint(m) ==
  {PmName(m)} \cup { CommandOf(extractPackageName(d)) : d \in Range(Some(m.global)) }

\* a machine: only what the manifest can make a run look at varies
MachineInit ==
  /\ nodeStdout \in Optional({<<"v">> \o V18, <<"v">> \o V20})
  /\ nvmInstalled \in BOOLEAN
  /\ nvmVersions \in SUBSET {V20}
  /\ ~nvmInstalled => nvmVersions = {}
  /\ nvmrc \in Optional({V18})
  /\ pathCommands \in SUBSET Footprint(config)
  /\ nodeModules \in (IF Len(config.global) > 0 THEN Optional({{}}) ELSE {None})
  /\ codeCLI \in BOOLEAN
  /\ codeExtensions \in (IF codeCLI THEN SUBSET Range(config.vscode) ELSE {{}})
  /\ packageJson \in (IF Husky \in Range(config.postSync)
                        THEN Optional({{}, {"husky"}}) ELSE {None})

\* the machine as the health check sees it: it looks for node_modules,
\* package.json and angular.json whatever the manifest declares, and never
\* asks the version manager for its versions
TryMachineInit ==
  /\ nodeStdout \in Optional({<<"v">> \o V18, <<"v">> \o V20})
  /\ nvmInstalled \in BOOLEAN
  /\ nvmVersions = {}
  /\ nvmrc \in Optional({V18})
  /\ pathCommands \in SUBSET Footprint(config)
  /\ nodeModules \in Optional({{}})
  /\ codeCLI \in BOOLEAN
  /\ codeExtensions \in (IF codeCLI THEN SUBSET Range(config.vscode) ELSE {{}})
  /\ packageJson \in Optional({{}})
  /\ angularJson \in BOOLEAN

\* the manifests a command can tell apart: diffCommand and tryCommand never
\* read the scripts section
ManifestsFor(c) ==
  IF c = "sync"
    THEN Manifests
    ELSE { m \in Manifests : m.preSync = None /\ m.postSync = None }

\* what yaml.parse would return for a file that declares the least; config
\* holds it when there is no envsync.yaml, and is then never read
Undeclared ==
  [ name |-> "app", type |-> Angular, angularVersion |-> None, node |-> V20,
    packageManager |-> Pnpm \o <<"@">> \o Latest,
    global |-> <<>>, vscode |-> None, preSync |-> None, postSync |-> None ]

Commands == {"sync", "diff", "try"}

\* nothing of a project that updateCommand would look at, nothing written
NoUpdate ==
  /\ angularCore = None
  /\ lockfiles = {}
  /\ updates = <<>>
  /\ written = None

\* the command has been called and has not run yet
SyncInit ==
  /\ pc = "start"
  /\ idx = 1
  /\ hasErrors = FALSE
  /\ issues = <<>>
  /\ log = <<>>
  /\ overallStatus = NULL
  /\ exitCode = None

\* a process started with one of the commands, in a directory with or
\* without envsync.yaml, whose project.type is one of types
InitOf(commands, types) ==
  /\ invoked \in commands
  /\ manifestExists \in BOOLEAN
  /\ config \in (IF manifestExists
                   THEN { [m EXCEPT !.type = t] :
                            m \in ManifestsFor(invoked), t \in types }
                   ELSE {Undeclared})
  /\ IF invoked = "try"
       THEN TryMachineInit
       ELSE MachineInit /\ angularJson = TRUE
  /\ SyncInit
  /\ differences = <<>>
  /\ previous = None
  /\ healthScore = 100
  /\ band = NULL
  /\ NoUpdate
  /\ pkg = <<>>
  /\ packageName = None
  /\ probeCall = None

Init == InitOf({"sync"}, {Angular})

(***************************************************************************)
(* syncCommand (commands/sync.ts)                                          *)
(***************************************************************************)
\* one terminal step outcome: what the spinner of that step reported
\* step: the kind of step; target: its index in the manifest list (0: none);
\* probe: what the step's presence check answered; ran: an external
\* corrective command was issued; outcome: the terminal outcome
Entry(step, target, probe, ran, outcome) ==
  [step |-> step, target |-> target, probe |-> probe, ran |-> ran,
   outcome |-> outcome]

Record(e) == log' = Append(log, e)

\* where the run goes once a section is finished
AfterExtensions == IF Declared(config.postSync) THEN "post" ELSE "summary"
AfterTools == IF Declared(config.vscode) THEN "exthost" ELSE AfterExtensions
AfterPackageManager == IF Declared(Some(config.global)) THEN "tools" ELSE AfterTools
\* the global tools handled before the package manager, which is then left out
AfterRuntimeToolsFirst == IF Declared(Some(config.global)) THEN "tools" ELSE "pm"

AfterRuntime == "pm"
AfterPreSync == "node"

\* for (const x of list): next entry, or leave the loop
Advance(list, after) ==
  IF idx < Len(The(list))
    THEN pc' = pc /\ idx' = idx + 1
    ELSE pc' = after /\ idx' = 1

\* sync.ts:28-65
Begin ==
  /\ invoked = "sync"
  /\ pc = "start"
  /\ IF ~manifestExists
       THEN pc' = "exit" /\ exitCode' = Some(1)
       ELSE /\ pc' = IF Declared(config.preSync) THEN "pre" ELSE AfterPreSync
            /\ UNCHANGED exitCode
  /\ UNCHANGED <<config, parseVars, outsideSync, machineVars, idx, hasErrors, issues, log,
                 overallStatus>>

\* sync.ts:69-86 and the outer catch 341-345
PreSyncScript ==
  /\ pc = "pre"
  /\ \E ok \in BOOLEAN :
       IF ok
         THEN /\ Record(Entry("pre-sync", idx, "none", TRUE, "succeeded"))
              /\ Advance(config.preSync, AfterPreSync)
              /\ UNCHANGED exitCode
         ELSE /\ Record(Entry("pre-sync", idx, "none", TRUE, "failed"))
              /\ pc' = "exit"
              /\ exitCode' = Some(1)
              /\ UNCHANGED idx
  /\ UNCHANGED <<config, parseVars, outsideSync, machineVars, hasErrors, issues, overallStatus>>

\* CheckNode without the process.exit(1) of sync.ts:97: a missing runtime is
\* reported and the run goes on
CheckNodeReportOnly ==
  /\ pc = "node"
  /\ LET currentNode == getCurrentNodeVersion IN
       IF currentNode = None \/ The(currentNode) = <<>>
         THEN /\ Record(Entry("runtime", 0, "missing", FALSE, "failed"))
              /\ pc' = AfterRuntime
              /\ UNCHANGED <<issues, exitCode>>
         ELSE IF The(currentNode) = config.node
           THEN /\ Record(Entry("runtime", 0, "match", FALSE, "succeeded"))
                /\ pc' = AfterRuntime
                /\ UNCHANGED <<issues, exitCode>>
         ELSE IF hasNVM
           THEN /\ pc' = IF isNodeVersionInstalled(config.node)
                           THEN "nvm-use" ELSE "nvm-install"
                /\ UNCHANGED <<issues, log, exitCode>>
         ELSE \E yes \in BOOLEAN :
                IF yes
                  THEN /\ issues' = Append(issues, "Node.js version mismatch")
                       /\ Record(Entry("runtime", 0, "mismatch", FALSE, "warned"))
                       /\ pc' = AfterRuntime
                       /\ UNCHANGED exitCode
                  ELSE /\ pc' = "prompt"
                       /\ UNCHANGED <<issues, log, exitCode>>
  /\ UNCHANGED <<config, parseVars, outsideSync, machineVars, idx, hasErrors, overallStatus>>

\* sync.ts:89-107, 146-151, 180-192; yes is options.yes
CheckNode ==
  /\ pc = "node"
  /\ LET currentNode == getCurrentNodeVersion IN
       IF currentNode = None \/ The(currentNode) = <<>>
         THEN /\ Record(Entry("runtime", 0, "missing", FALSE, "failed"))
              /\ pc' = "exit"
              /\ exitCode' = Some(1)
              /\ UNCHANGED issues
         ELSE IF The(currentNode) = config.node
           THEN /\ Record(Entry("runtime", 0, "match", FALSE, "succeeded"))
                /\ pc' = AfterRuntime
                /\ UNCHANGED <<issues, exitCode>>
         ELSE IF hasNVM
           THEN /\ pc' = IF isNodeVersionInstalled(config.node)
                           THEN "nvm-use" ELSE "nvm-install"
                /\ UNCHANGED <<issues, log, exitCode>>
         ELSE \E yes \in BOOLEAN :
                IF yes
                  THEN /\ issues' = Append(issues, "Node.js version mismatch")
                       /\ Record(Entry("runtime", 0, "mismatch", FALSE, "warned"))
                       /\ pc' = AfterRuntime
                       /\ UNCHANGED exitCode
                  ELSE /\ pc' = "prompt"
                       /\ UNCHANGED <<issues, log, exitCode>>
  /\ UNCHANGED <<config, parseVars, outsideSync, machineVars, idx, hasErrors, overallStatus>>

\* sync.ts:114-128 with installNodeVersion (system.ts:65-76)
InstallNode ==
  /\ pc = "nvm-install"
  /\ \E ok \in BOOLEAN :
       IF ok
         THEN /\ nvmVersions' = nvmVersions \cup {config.node}
              /\ Record(Entry("node-install", 0, "absent", TRUE, "succeeded"))
              /\ UNCHANGED hasErrors
         ELSE /\ hasErrors' = TRUE
              /\ Record(Entry("node-install", 0, "absent", TRUE, "failed"))
              /\ UNCHANGED nvmVersions
  /\ pc' = "nvm-use"
  /\ UNCHANGED <<config, parseVars, outsideSync, nodeStdout, nvmInstalled, nvmrc, pathCommands,
                 nodeModules, codeCLI, codeExtensions, packageJson, idx,
                 issues, overallStatus, exitCode>>

\* createNvmrc (system.ts:99-101): writeFileSync('.nvmrc', version)
createNvmrc(version) == nvmrc' = Some(version)

\* UseNode with a catch that rethrows, as the pre-sync loop does (sync.ts:84):
\* a failed activation then ends the run in the outer catch
UseNodeRethrow ==
  /\ pc = "nvm-use"
  /\ \E ok \in BOOLEAN :
       IF ok
         THEN /\ nodeStdout' = Some(<<"v">> \o config.node)
              /\ createNvmrc(config.node)
              /\ Record(Entry("node-use", 0, "none", TRUE, "succeeded"))
              /\ pc' = AfterRuntime
              /\ UNCHANGED <<hasErrors, exitCode>>
         ELSE /\ hasErrors' = TRUE
              /\ Record(Entry("node-use", 0, "none", TRUE, "failed"))
              /\ pc' = "exit"
              /\ exitCode' = Some(1)
              /\ UNCHANGED <<nodeStdout, nvmrc>>
  /\ UNCHANGED <<config, parseVars, outsideSync, nvmInstalled, nvmVersions, pathCommands,
                 nodeModules, codeCLI, codeExtensions, packageJson, idx, issues,
                 overallStatus>>

\* sync.ts:130-145 with useNodeVersion (system.ts:82-93)
UseNode ==
  /\ pc = "nvm-use"
  /\ \E ok \in BOOLEAN :
       IF ok
         THEN /\ nodeStdout' = Some(<<"v">> \o config.node)
              /\ createNvmrc(config.node)
              /\ Record(Entry("node-use", 0, "none", TRUE, "succeeded"))
              /\ UNCHANGED hasErrors
         ELSE /\ hasErrors' = TRUE
              /\ Record(Entry("node-use", 0, "none", TRUE, "failed"))
              /\ UNCHANGED <<nodeStdout, nvmrc>>
  /\ pc' = AfterRuntime
  /\ UNCHANGED <<config, parseVars, outsideSync, nvmInstalled, nvmVersions, pathCommands, nodeModules,
                 codeCLI, codeExtensions, packageJson, idx, issues,
                 overallStatus, exitCode>>

\* sync.ts:158-179, 186-188: the answer to "Would you like to install nvm now?"
Prompt ==
  /\ pc = "prompt"
  /\ \E shouldInstallNVM \in BOOLEAN :
       IF shouldInstallNVM
         THEN /\ pc' = "nvm-setup"
              /\ UNCHANGED <<issues, log>>
         ELSE /\ issues' = Append(issues, "Node.js version mismatch")
              /\ Record(Entry("runtime", 0, "mismatch", FALSE, "warned"))
              /\ pc' = AfterRuntime
  /\ UNCHANGED <<config, parseVars, outsideSync, machineVars, idx, hasErrors, overallStatus, exitCode>>

\* InstallNVM without the process.exit(0) of sync.ts:174: the run goes on
InstallNVMContinue ==
  /\ pc = "nvm-setup"
  /\ \E result \in {"installed", "not installed", "threw"} :
       /\ nvmInstalled' = (nvmInstalled \/ result = "installed")
       /\ Record(Entry("nvm-setup", 0, "absent", TRUE,
                       IF result = "installed" THEN "succeeded"
                       ELSE IF result = "threw" THEN "threw" ELSE "failed"))
       /\ IF result = "threw"
            THEN pc' = "exit" /\ exitCode' = Some(1)
            ELSE pc' = AfterRuntime /\ UNCHANGED exitCode
  /\ UNCHANGED <<config, parseVars, outsideSync, nodeStdout, nvmVersions, nvmrc, pathCommands,
                 nodeModules, codeCLI, codeExtensions, packageJson, idx,
                 hasErrors, issues, overallStatus>>

\* sync.ts:168-174 with installNVMInteractive (system.ts:216-272): the
\* installer succeeds, fails and reports it itself (250-270), or throws
\* (243), which the outer catch of syncCommand turns into exit 1
InstallNVM ==
  /\ pc = "nvm-setup"
  /\ \E result \in {"installed", "not installed", "threw"} :
       /\ nvmInstalled' = (nvmInstalled \/ result = "installed")
       /\ Record(Entry("nvm-setup", 0, "absent", TRUE,
                       IF result = "installed" THEN "succeeded"
                       ELSE IF result = "threw" THEN "threw" ELSE "failed"))
       /\ exitCode' = IF result = "threw" THEN Some(1) ELSE Some(0)
  /\ pc' = "exit"
  /\ UNCHANGED <<config, parseVars, outsideSync, nodeStdout, nvmVersions, nvmrc, pathCommands,
                 nodeModules, codeCLI, codeExtensions, packageJson, idx,
                 hasErrors, issues, overallStatus>>

\* sync.ts:194-214
PackageManager ==
  /\ pc = "pm"
  /\ LET pm == PmName(config)
         hasPM == hasPackageManager(pm)
     IN  IF hasPM
           THEN /\ Record(Entry("package-manager", 0, "present", FALSE, "succeeded"))
                /\ UNCHANGED <<pathCommands, hasErrors>>
           ELSE \E ok \in BOOLEAN :
                  IF ok
                    THEN /\ pathCommands' = pathCommands \cup {pm}
                         /\ Record(Entry("package-manager", 0, "absent", TRUE, "succeeded"))
                         /\ UNCHANGED hasErrors
                    ELSE /\ hasErrors' = TRUE
                         /\ Record(Entry("package-manager", 0, "absent", TRUE, "failed"))
                         /\ UNCHANGED pathCommands
  /\ pc' = AfterPackageManager
  /\ idx' = 1
  /\ UNCHANGED <<config, parseVars, outsideSync, nodeStdout, nvmInstalled, nvmVersions, nvmrc,
                 nodeModules, codeCLI, codeExtensions, packageJson, issues,
                 overallStatus, exitCode>>

\* GlobalTool leaving the loop at the first failed install
GlobalToolFailFast ==
  /\ pc = "tools"
  /\ LET dep == config.global[idx]
         pkgName == Split(dep, "@")[1]
         isInstalled == hasGlobalPackage(pkgName)
     IN  IF isInstalled
           THEN /\ Record(Entry("global-tool", idx, "present", FALSE, "succeeded"))
                /\ Advance(Some(config.global), AfterTools)
                /\ UNCHANGED <<pathCommands, hasErrors>>
           ELSE \E ok \in BOOLEAN :
                  IF ok
                    THEN /\ pathCommands' =
                              pathCommands \cup {CommandOf(extractPackageName(dep))}
                         /\ Record(Entry("global-tool", idx, "absent", TRUE, "succeeded"))
                         /\ Advance(Some(config.global), AfterTools)
                         /\ UNCHANGED hasErrors
                    ELSE /\ hasErrors' = TRUE
                         /\ Record(Entry("global-tool", idx, "absent", TRUE, "failed"))
                         /\ pc' = AfterTools
                         /\ idx' = 1
                         /\ UNCHANGED pathCommands
  /\ UNCHANGED <<config, parseVars, outsideSync, nodeStdout, nvmInstalled, nvmVersions, nvmrc,
                 nodeModules, codeCLI, codeExtensions, packageJson, issues,
                 overallStatus, exitCode>>

\* sync.ts:219-237: one entry of dependencies.global
GlobalTool ==
  /\ pc = "tools"
  /\ LET dep == config.global[idx]
         pkgName == Split(dep, "@")[1]
         isInstalled == hasGlobalPackage(pkgName)
     IN  IF isInstalled
           THEN /\ Record(Entry("global-tool", idx, "present", FALSE, "succeeded"))
                /\ UNCHANGED <<pathCommands, hasErrors>>
           ELSE \E ok \in BOOLEAN :
                  IF ok
                    THEN /\ pathCommands' =
                              pathCommands \cup {CommandOf(extractPackageName(dep))}
                         /\ Record(Entry("global-tool", idx, "absent", TRUE, "succeeded"))
                         /\ UNCHANGED hasErrors
                    ELSE /\ hasErrors' = TRUE
                         /\ Record(Entry("global-tool", idx, "absent", TRUE, "failed"))
                         /\ UNCHANGED pathCommands
  /\ Advance(Some(config.global), AfterTools)
  /\ UNCHANGED <<config, parseVars, outsideSync, nodeStdout, nvmInstalled, nvmVersions, nvmrc,
                 nodeModules, codeCLI, codeExtensions, packageJson, issues,
                 overallStatus, exitCode>>

\* sync.ts:242-252
ExtensionHost ==
  /\ pc = "exthost"
  /\ IF hasVSCodeCLI
       THEN /\ pc' = "ext"
            /\ UNCHANGED log
       ELSE /\ Record(Entry("extension-host", 0, "absent", FALSE, "skipped"))
            /\ pc' = AfterExtensions
  /\ idx' = 1
  /\ UNCHANGED <<config, parseVars, outsideSync, machineVars, hasErrors, issues, overallStatus, exitCode>>

\* sync.ts:254-270: one entry of extensions.vscode
Extension ==
  /\ pc = "ext"
  /\ LET ext == The(config.vscode)[idx]
         isInstalled == hasVSCodeExtension(ext)
     IN  IF isInstalled
           THEN /\ Record(Entry("extension", idx, "present", FALSE, "succeeded"))
                /\ UNCHANGED codeExtensions
           ELSE \E ok \in BOOLEAN :
                  IF ok
                    THEN /\ codeExtensions' = codeExtensions \cup {ext}
                         /\ Record(Entry("extension", idx, "absent", TRUE, "succeeded"))
                    ELSE /\ Record(Entry("extension", idx, "absent", TRUE, "warned"))
                         /\ UNCHANGED codeExtensions
  /\ Advance(config.vscode, AfterExtensions)
  /\ UNCHANGED <<config, parseVars, outsideSync, nodeStdout, nvmInstalled, nvmVersions, nvmrc,
                 pathCommands, nodeModules, codeCLI, packageJson, hasErrors,
                 issues, overallStatus, exitCode>>

\* script.includes("audit fix")
IncludesAuditFix(script) ==
  \E i \in 1..(Len(script) - 1) : script[i] = "audit" /\ script[i + 1] = "fix"

\* sync.ts:288-305: the husky command is skipped when package.json exists
\* and declares no husky dependency
SkipsHusky(script) ==
  /\ script[1] = "npx"
  /\ Len(script) > 1
  /\ script[2] = "husky"
  /\ packageJson # None
  /\ "husky" \notin The(packageJson)

\* sync.ts:281-322: one entry of scripts["post-sync"]
PostSyncScript ==
  /\ pc = "post"
  /\ LET script == The(config.postSync)[idx] IN
       IF SkipsHusky(script)
         THEN /\ Record(Entry("post-sync", idx, "absent", FALSE, "skipped"))
              /\ UNCHANGED hasErrors
         ELSE \E ok \in BOOLEAN :
                IF ok
                  THEN /\ Record(Entry("post-sync", idx, "none", TRUE, "succeeded"))
                       /\ UNCHANGED hasErrors
                  ELSE IF IncludesAuditFix(script)
                    THEN /\ Record(Entry("post-sync", idx, "none", TRUE, "warned"))
                         /\ UNCHANGED hasErrors
                    ELSE /\ Record(Entry("post-sync", idx, "none", TRUE, "failed"))
                         /\ hasErrors' = TRUE
  /\ Advance(config.postSync, "summary")
  /\ UNCHANGED <<config, parseVars, outsideSync, machineVars, issues, overallStatus, exitCode>>

\* sync.ts:325-340, then syncCommand returns and the process ends normally
Summary ==
  /\ pc = "summary"
  /\ overallStatus' = IF hasErrors THEN "failed"
                      ELSE IF Len(issues) > 0 THEN "warned"
                      ELSE "succeeded"
  /\ pc' = "done"
  /\ exitCode' = Some(0)
  /\ UNCHANGED <<config, parseVars, outsideSync, machineVars, idx, hasErrors, issues, log>>

Next ==
  \/ Begin
  \/ PreSyncScript
  \/ CheckNode
  \/ InstallNode
  \/ UseNode
  \/ Prompt
  \/ InstallNVM
  \/ PackageManager
  \/ GlobalTool
  \/ ExtensionHost
  \/ Extension
  \/ PostSyncScript
  \/ Summary

Spec == Init /\ [][Next]_vars

(***************************************************************************)
(* diffCommand (commands/diff.ts, kept as unnamed/part_006 and repeated in *)
(* commands/sync.ts:362-523); diff.ts:n is line n of part_006              *)
(***************************************************************************)
\* one entry of differences: the component compared, the index of the
\* manifest entry it stands for (0: none), and the status
Difference(component, target, status) ==
  [component |-> component, target |-> target, status |-> status]

\* diff.ts:42-49
NodeDifference ==
  LET currentNode == getCurrentNodeVersion IN
    Difference("Node.js", 0,
               IF currentNode # None /\ The(currentNode) = config.node
                 THEN "match"
               ELSE IF currentNode # None /\ The(currentNode) # <<>>
                 THEN "mismatch"
               ELSE "missing")

\* diff.ts:51-58
NvmDifference == Difference("NVM", 0, IF hasNVM THEN "match" ELSE "missing")

\* diff.ts:60-67
NvmrcDifference ==
  Difference(".nvmrc file", 0, IF nvmrc # None THEN "match" ELSE "missing")

\* diff.ts:69-80
PackageManagerDifference ==
  Difference("Package Manager", 0,
             IF hasPackageManager(PmName(config)) THEN "match" ELSE "missing")

\* diff.ts:82-93: the whole specifier goes to hasGlobalPackage
GlobalDifferences ==
  [ i \in 1..Len(config.global) |->
      Difference("Global", i,
                 IF hasGlobalPackage(config.global[i]) THEN "match" ELSE "missing") ]

\* diff.ts:95-115: a list, even an empty one, is truthy
ExtensionDifferences ==
  IF config.vscode # None /\ hasVSCodeCLI
    THEN [ i \in 1..Len(The(config.vscode)) |->
             Difference("VSCode", i,
                        IF hasVSCodeExtension(The(config.vscode)[i])
                          THEN "match" ELSE "missing") ]
  ELSE IF config.vscode # None /\ ~hasVSCodeCLI
    THEN <<Difference("VSCode CLI", 0, "missing")>>
  ELSE <<>>

\* the comparison with the global tools compared before the package manager
DifferencesToolsFirst ==
  <<NodeDifference, NvmDifference, NvmrcDifference>>
    \o GlobalDifferences \o <<PackageManagerDifference>> \o ExtensionDifferences

\* diff.ts:35-115: differences once every push has been made
Differences ==
  <<NodeDifference, NvmDifference, NvmrcDifference, PackageManagerDifference>>
    \o GlobalDifferences \o ExtensionDifferences

\* diff.ts:16-33
DiffBegin ==
  /\ invoked = "diff"
  /\ pc = "start"
  /\ IF ~manifestExists
       THEN pc' = "exit" /\ exitCode' = Some(1)
       ELSE pc' = "diff-compare" /\ UNCHANGED exitCode
  /\ UNCHANGED <<config, machineVars, parseVars, callVars, diffVars, tryVars,
                 updateVars, idx, hasErrors, issues, log, overallStatus>>

\* DiffCompare with the probes started together and the records pushed as
\* the probes complete, the global tools before or after the runtime
DiffCompareAsCompleted ==
  /\ pc = "diff-compare"
  /\ differences' \in {Differences, DifferencesToolsFirst}
  /\ pc' = "diff-report"
  /\ UNCHANGED <<config, machineVars, parseVars, callVars, tryVars, updateVars,
                 previous, idx, hasErrors, issues, log, overallStatus, exitCode>>

\* DiffCompare repairing what it finds: a missing pin file is written
DiffCompareWritesPin ==
  /\ pc = "diff-compare"
  /\ differences' = Differences
  /\ nvmrc' = IF nvmrc = None THEN Some(config.node) ELSE nvmrc
  /\ pc' = "diff-report"
  /\ UNCHANGED <<config, nodeStdout, nvmInstalled, nvmVersions, pathCommands,
                 nodeModules, codeCLI, codeExtensions, packageJson, parseVars,
                 callVars, tryVars, updateVars, previous, idx, hasErrors,
                 issues, log, overallStatus, exitCode>>

\* diff.ts:35-115
DiffCompare ==
  /\ pc = "diff-compare"
  /\ differences' = Differences
  /\ pc' = "diff-report"
  /\ UNCHANGED <<config, machineVars, parseVars, callVars, tryVars, updateVars,
                 previous, idx, hasErrors, issues, log, overallStatus, exitCode>>

\* diff.ts:117-179: the table and the summary are printed, diffCommand
\* returns and the process ends normally
DiffReport ==
  /\ pc = "diff-report"
  /\ pc' = "done"
  /\ exitCode' = Some(0)
  /\ UNCHANGED <<config, machineVars, parseVars, callVars, diffVars, tryVars,
                 updateVars, idx, hasErrors, issues, log, overallStatus>>

\* `envsync diff` is started once more in the same directory, on the
\* machine and the manifest as they are; the records of the run before are
\* kept for comparison
DiffAgain ==
  /\ invoked = "diff"
  /\ pc = "done"
  /\ previous = None
  /\ previous' = Some(differences)
  /\ differences' = <<>>
  /\ pc' = "start"
  /\ exitCode' = None
  /\ UNCHANGED <<config, machineVars, parseVars, callVars, tryVars, updateVars,
                 idx, hasErrors, issues, log, overallStatus>>

NextDiff ==
  \/ DiffBegin
  \/ DiffCompare
  \/ DiffReport
  \/ DiffAgain

InitDiff == InitOf({"diff"}, {Angular})

SpecDiff == InitDiff /\ [][NextDiff]_vars

(***************************************************************************)
(* tryCommand, the health check (commands/try.ts, kept as                  *)
(* unnamed/part_002); try.ts:n is line n of part_002                       *)
(***************************************************************************)
Max(a, b) == IF a >= b THEN a ELSE b

\* how many entries of a list of check results are failures
Missing(results) == Cardinality({ i \in DOMAIN results : ~results[i] })

\* what the checks of tryCommand find on this machine: for every check
\* whether it passes, for the two lists one answer per declared entry
Checks ==
  [ node |-> (getCurrentNodeVersion = Some(config.node)),
    nvm |-> hasNVM,
    nvmrc |-> (nvmrc # None),
    pm |-> hasPackageManager(PmName(config)),
    tools |-> [ i \in 1..Len(config.global) |->
                  hasGlobalPackage(Split(config.global[i], "@")[1]) ],
    vscode |-> hasVSCodeCLI,
    exts |-> [ i \in 1..Size(config.vscode) |->
                 hasVSCodeExtension(The(config.vscode)[i]) ],
    nodeModules |-> (nodeModules # None),
    packageJson |-> (packageJson # None),
    angularJson |-> angularJson ]

\* the pin-file deduction made whether or not the version manager is there
pinFileDeductionAlways(r) == IF ~r.nvmrc THEN 5 ELSE 0

\* try.ts:88-91
pinFileDeduction(r) == IF ~r.nvmrc /\ r.nvm THEN 5 ELSE 0

\* the score left as the deductions made it
unclamped(score) == score

\* try.ts:227: Math.max(0, healthScore)
clamped(score) == Max(0, score)

\* try.ts:34-227: healthScore after the ten checks found the results r
healthScoreOf(r) ==
  LET afterNode == IF ~r.node THEN 100 - 20 ELSE 100
      afterNvm == IF ~r.nvm THEN afterNode - 5 ELSE afterNode
      afterNvmrc == afterNvm - pinFileDeduction(r)
      afterPm == IF ~r.pm THEN afterNvmrc - 15 ELSE afterNvmrc
      missingGlobals == Missing(r.tools)
      afterGlobals == IF Len(r.tools) > 0 /\ missingGlobals > 0
                        THEN afterPm - missingGlobals * 10 ELSE afterPm
      missingExtensions == Missing(r.exts)
      afterExtensions == IF r.vscode /\ Len(r.exts) > 0 /\ missingExtensions > 0
                           THEN afterGlobals - missingExtensions * 3
                           ELSE afterGlobals
      afterNodeModules == IF ~r.nodeModules THEN afterExtensions - 10
                          ELSE afterExtensions
      afterPackageJson == IF ~r.packageJson THEN afterNodeModules - 20
                          ELSE afterNodeModules
      afterAngularJson == IF ~r.angularJson THEN afterPackageJson - 15
                          ELSE afterPackageJson
  IN  clamped(afterAngularJson)

\* the status with the upper band starting above 90
statusOfAbove(score) ==
  IF score > 90 THEN "Excellent"
  ELSE IF score >= 70 THEN "Good"
  ELSE "Needs Attention"

\* try.ts:245-247
statusOf(score) ==
  IF score >= 90 THEN "Excellent"
  ELSE IF score >= 70 THEN "Good"
  ELSE "Needs Attention"

\* try.ts:16-31
TryBegin ==
  /\ invoked = "try"
  /\ pc = "start"
  /\ IF ~manifestExists
       THEN pc' = "exit" /\ exitCode' = Some(1)
       ELSE pc' = "try-checks" /\ UNCHANGED exitCode
  /\ UNCHANGED <<config, machineVars, parseVars, callVars, diffVars, tryVars,
                 updateVars, idx, hasErrors, issues, log, overallStatus>>

\* try.ts:33-227
TryChecks ==
  /\ pc = "try-checks"
  /\ healthScore' = healthScoreOf(Checks)
  /\ pc' = "try-report"
  /\ UNCHANGED <<config, machineVars, parseVars, callVars, diffVars, updateVars,
                 angularJson, band, idx, hasErrors, issues, log, overallStatus,
                 exitCode>>

\* try.ts:228-265
TryReport ==
  /\ pc = "try-report"
  /\ band' = statusOf(healthScore)
  /\ exitCode' = Some(IF healthScore >= 70 THEN 0 ELSE 1)
  /\ pc' = "exit"
  /\ UNCHANGED <<config, machineVars, parseVars, callVars, diffVars, updateVars,
                 angularJson, healthScore, idx, hasErrors, issues, log,
                 overallStatus>>

NextTry ==
  \/ TryBegin
  \/ TryChecks
  \/ TryReport

InitTry == InitOf({"try"}, {Angular})

SpecTry == InitTry /\ [][NextTry]_vars

(***************************************************************************)
(* The three commands side by side: any of them is started, on a manifest  *)
(* of any project type                                                     *)
(***************************************************************************)
InitCommands == InitOf(Commands, ProjectTypes)

NextCommands ==
  \/ Next
  \/ NextDiff
  \/ NextTry

SpecCommands == InitCommands /\ [][NextCommands]_vars

(***************************************************************************)
(* updateCommand (commands/update.ts) with the AngularDetector it asks     *)
(* (core/angular-detector.ts)                                              *)
(***************************************************************************)
Npm == <<"n", "p", "m">>
Yarn == <<"y", "a", "r", "n">>
Tag16 == <<"1", "6", ".", "2", ".", "0">>

\* angularCore.replace(/[\^~]/g, ''): every ^ and ~ is dropped
RECURSIVE StripRange(_)
StripRange(s) ==
  IF s = <<>>
    THEN <<>>
    ELSE (IF Head(s) \in {"^", "~"} THEN <<>> ELSE <<Head(s)>>)
           \o StripRange(Tail(s))

Digits == <<"0", "1", "2", "3", "4", "5", "6", "7", "8", "9">>

\* parseInt of a string of decimal digits; 0 stands for NaN, which like 0
\* is no key of nodeVersionMap
RECURSIVE parseInt(_)
parseInt(s) ==
  IF s = <<>> \/ ~(\E d \in 1..10 : Digits[d] = s[Len(s)])
    THEN 0
    ELSE 10 * parseInt(SubSeq(s, 1, Len(s) - 1))
           + (CHOOSE d \in 0..9 : Digits[d + 1] = s[Len(s)])

nodeVersionMap ==
  ( 18 :> V20 )
  @@ ( 17 :> V20 )
  @@ ( 16 :> V18 )
  @@ ( 15 :> <<"1", "8", ".", "1", "3", ".", "0">> )
  @@ ( 14 :> <<"1", "6", ".", "2", "0", ".", "0">> )
  @@ ( 13 :> <<"1", "6", ".", "2", "0", ".", "0">> )

\* angular-detector.ts:106-119
getRecommendedNodeVersion(angularVersion) ==
  LET majorVersion == parseInt(Split(angularVersion, ".")[1])
  IN  IF majorVersion \in DOMAIN nodeVersionMap
        THEN nodeVersionMap[majorVersion]
        ELSE V20

\* angular-detector.ts:16-35
isAngularProject ==
  angularJson \/ (packageJson # None /\ angularCore # None)

\* angular-detector.ts:125-129
detectPackageManager ==
  IF "pnpm-lock.yaml" \in lockfiles THEN Pnpm
  ELSE IF "yarn.lock" \in lockfiles THEN Yarn
  ELSE Npm

\* how detectAngularProject ends (angular-detector.ts:41-79): with null,
\* with an exception (no package.json, or no @angular/core in it), or with
\* a project
Detection ==
  IF ~isAngularProject THEN "null"
  ELSE IF packageJson = None \/ angularCore = None THEN "threw"
  ELSE "found"

\* the AngularProject it returns, as far as updateCommand reads it
angularProject ==
  [ version |-> StripRange(The(angularCore)),
    packageManager |-> detectPackageManager ]

\* `@angular/cli@${angularProject.version}`
latestCLI(project) == AngularCli \o <<"@">> \o project.version

\* update.ts:61-110: the fields a change is reported for, in the order of
\* the code
Deltas(currentConfig, project) ==
  (IF Some(project.version) # currentConfig.angularVersion
     THEN <<"angularVersion">> ELSE <<>>)
  \o (IF getRecommendedNodeVersion(project.version) # currentConfig.node
        THEN <<"node">> ELSE <<>>)
  \o (IF project.packageManager # Split(currentConfig.packageManager, "@")[1]
        THEN <<"packageManager">> ELSE <<>>)
  \o (IF Len(currentConfig.global) = 0
           \/ currentConfig.global[1] # latestCLI(project)
        THEN <<"cli">> ELSE <<>>)

\* update.ts:148-162
updatedConfig(currentConfig, project) ==
  [ currentConfig EXCEPT
      !.angularVersion = Some(project.version),
      !.node = getRecommendedNodeVersion(project.version),
      !.packageManager = project.packageManager,
      !.global = <<latestCLI(project)>> ]

\* update.ts:18-58
UpdateBegin ==
  /\ invoked = "update"
  /\ pc = "start"
  /\ IF ~manifestExists \/ Detection # "found"
       THEN pc' = "exit" /\ exitCode' = Some(1)
       ELSE pc' = "update-compare" /\ UNCHANGED exitCode
  /\ UNCHANGED <<config, machineVars, parseVars, callVars, diffVars, tryVars,
                 updateVars, idx, hasErrors, issues, log, overallStatus>>

\* update.ts:61-126
UpdateCompare ==
  /\ pc = "update-compare"
  /\ updates' = Deltas(config, angularProject)
  /\ IF Len(updates') = 0
       THEN pc' = "done" /\ exitCode' = Some(0)
       ELSE pc' = "update-confirm" /\ UNCHANGED exitCode
  /\ UNCHANGED <<config, machineVars, parseVars, callVars, diffVars, tryVars,
                 angularCore, lockfiles, written, idx, hasErrors, issues, log,
                 overallStatus>>

\* update.ts:128-166: yes is options.yes, shouldUpdate the answer to
\* "Update envsync.yaml with these changes?"
UpdateConfirm ==
  /\ pc = "update-confirm"
  /\ \E yes \in BOOLEAN, shouldUpdate \in BOOLEAN :
       IF ~yes /\ ~shouldUpdate
         THEN /\ pc' = "done"
              /\ exitCode' = Some(0)
              /\ UNCHANGED written
         ELSE /\ written' = Some(updatedConfig(config, angularProject))
              /\ pc' = "update-sync"
              /\ UNCHANGED exitCode
  /\ UNCHANGED <<config, machineVars, parseVars, callVars, diffVars, tryVars,
                 angularCore, lockfiles, updates, idx, hasErrors, issues, log,
                 overallStatus>>

\* update.ts:168-192: the answer to 'Run "envsync sync" to apply changes?';
\* syncCommand is then called, reads the file just written and runs from
\* its first line
UpdateSync ==
  /\ pc = "update-sync"
  /\ \E yes \in BOOLEAN, shouldSync \in BOOLEAN :
       IF yes \/ shouldSync
         THEN /\ invoked' = "sync"
              /\ config' = The(written)
              /\ pc' = "start"
              /\ UNCHANGED exitCode
         ELSE /\ pc' = "done"
              /\ exitCode' = Some(0)
              /\ UNCHANGED <<invoked, config>>
  /\ UNCHANGED <<machineVars, parseVars, manifestExists, diffVars, tryVars,
                 updateVars, idx, hasErrors, issues, log, overallStatus>>

NextUpdate ==
  \/ UpdateBegin
  \/ UpdateCompare
  \/ UpdateConfirm
  \/ UpdateSync

\* the manifests updateCommand can tell apart: with or without an Angular
\* version, with a tagged or a bare package manager
UpdateManifests ==
  { [m EXCEPT !.angularVersion = a, !.packageManager = p] :
      m \in Manifests,
      a \in Optional({Tag17}),
      p \in {Pnpm \o <<"@">> \o Latest, Npm} }

\* updateCommand is started in a project directory; of the machine it reads
\* angular.json, package.json and the lock files only; the runtime, the
\* version manager and the extension host vary for the sync run it can
\* hand over to, on a machine that has none of the declared tools yet
InitUpdate ==
  /\ invoked = "update"
  /\ manifestExists \in BOOLEAN
  /\ config \in (IF manifestExists THEN UpdateManifests ELSE {Undeclared})
  /\ angularJson \in BOOLEAN
  /\ packageJson \in Optional({{}})
  /\ angularCore \in (IF packageJson = None
                        THEN {None}
                        ELSE Optional({<<"^">> \o Tag17, <<"~">> \o Tag16}))
  /\ lockfiles \in SUBSET {"pnpm-lock.yaml", "yarn.lock"}
  /\ updates = <<>>
  /\ written = None
  /\ nodeStdout \in {Some(<<"v">> \o V18), Some(<<"v">> \o V20)}
  /\ nvmInstalled \in BOOLEAN
  /\ nvmVersions = {}
  /\ nvmrc = None
  /\ pathCommands = {}
  /\ nodeModules = None
  /\ codeCLI \in BOOLEAN
  /\ codeExtensions = {}
  /\ SyncInit
  /\ differences = <<>>
  /\ previous = None
  /\ healthScore = 100
  /\ band = NULL
  /\ pkg = <<>>
  /\ packageName = None
  /\ probeCall = None

\* an update run, and after it the sync run it hands over to
SpecUpdate == InitUpdate /\ [][NextUpdate \/ Next]_vars

(***************************************************************************)
(* extractPackageName on its own: every short string over the characters   *)
(* that matter to it, and the specifiers of the documentation              *)
(***************************************************************************)
Alphabet == {"@", "/", "n", "1"}

Strings(n) == UNION { [1..k -> Alphabet] : k \in 0..n }

ScopeName == <<"@", "s", "c", "o", "p", "e", "/", "n", "a", "m", "e">>
Name == <<"n", "a", "m", "e">>
Tag123 == <<"1", ".", "2", ".", "3">>

Documented ==
  { ScopeName \o <<"@">> \o Tag123, Name \o <<"@">> \o Latest, Name, ScopeName }

InitParse ==
  /\ config \in { m \in Manifests : Len(m.global) = 0 /\ m.vscode = None
                                    /\ m.preSync = None /\ m.postSync = None }
  /\ invoked = "sync"
  /\ manifestExists = TRUE
  /\ differences = <<>>
  /\ previous = None
  /\ NoUpdate
  /\ angularJson = TRUE
  /\ healthScore = 100
  /\ band = NULL
  /\ nodeStdout = None
  /\ nvmInstalled = FALSE
  /\ nvmVersions = {}
  /\ nvmrc = None
  /\ pathCommands = {}
  /\ nodeModules = None
  /\ codeCLI = FALSE
  /\ codeExtensions = {}
  /\ packageJson = None
  /\ SyncInit
  /\ pkg \in Strings(MaxLen) \cup Specifiers \cup Documented
  /\ packageName = None
  /\ probeCall = None

\* system.ts:124: const packageName = extractPackageName(pkg)
Parse ==
  /\ packageName = None
  /\ packageName' = Some(extractPackageName(pkg))
  /\ UNCHANGED <<config, machineVars, syncVars, pkg, probeCall, outsideSync>>

NextParse == Parse

SpecParse == InitParse /\ [][NextParse]_vars

(***************************************************************************)
(* The probes of utils/system.ts on their own: each is called once, on any *)
(* machine, while its external command runs as the machine allows or fails *)
(* for another reason (a timeout, a transient error)                       *)
(***************************************************************************)
Probes ==
  { "getCurrentNodeVersion", "hasNVM", "isNodeVersionInstalled",
    "hasPackageManager", "hasGlobalPackage", "hasVSCodeCLI",
    "hasVSCodeExtension" }

\* the entries of the manifest a probe can be asked about, 0 for none
TargetsOf(probe) ==
  IF probe = "hasGlobalPackage" THEN DOMAIN config.global
  ELSE IF probe = "hasVSCodeExtension" THEN 1..Size(config.vscode)
  ELSE {0}

\* the await execa(...) of a probe rejects
Rejects(probe, target, fault) ==
  \/ fault
  \/ probe = "getCurrentNodeVersion" /\ nodeStdout = None
  \/ probe = "hasNVM" /\ ~nvmInstalled
  \/ probe = "isNodeVersionInstalled" /\ config.node \notin nvmVersions
  \/ probe = "hasPackageManager" /\ ~Runs(PmName(config))
  \/ probe = "hasGlobalPackage"
       /\ ~Runs(CommandOf(extractPackageName(config.global[target])))
  \/ probe \in {"hasVSCodeCLI", "hasVSCodeExtension"} /\ ~codeCLI

\* what the try block returns when the command resolves
Resolved(probe, target) ==
  IF probe = "hasVSCodeExtension"
       /\ The(config.vscode)[target] \notin codeExtensions
    THEN "absent"
    ELSE "present"

\* what the catch block returns: null, false, or for a global tool the
\* answer of hasLocalPackage
Fallback(probe, target) ==
  IF probe = "hasGlobalPackage"
       /\ hasLocalPackage(extractPackageName(config.global[target]))
    THEN "present"
    ELSE "absent"

\* a probe without a catch block: the rejection reaches the caller
uncaught(fallback) == "threw"

\* catch { return ... }: the rejection is swallowed
caught(fallback) == fallback

\* the answer of one call: "present" for true or a version, "absent" for
\* false or null, "threw" for an exception
Answer(probe, target, fault) ==
  IF Rejects(probe, target, fault)
    THEN caught(Fallback(probe, target))
    ELSE Resolved(probe, target)

CallProbe ==
  /\ probeCall = None
  /\ \E probe \in Probes, fault \in BOOLEAN :
       \E target \in TargetsOf(probe) :
         probeCall' = Some([ probe |-> probe, target |-> target,
                             rejected |-> Rejects(probe, target, fault),
                             answer |-> Answer(probe, target, fault) ])
  /\ UNCHANGED <<config, machineVars, syncVars, pkg, packageName, outsideSync>>

NextProbe == CallProbe

\* any manifest the probes can be asked about, any machine, also one with
\* declared tools installed in the local node_modules
InitProbe ==
  /\ invoked = "diff"
  /\ manifestExists = TRUE
  /\ config \in ManifestsFor(invoked)
  /\ nodeStdout \in Optional({<<"v">> \o V18, <<"v">> \o V20})
  /\ nvmInstalled \in BOOLEAN
  /\ nvmVersions \in SUBSET {V20}
  /\ ~nvmInstalled => nvmVersions = {}
  /\ nvmrc = None
  /\ pathCommands \in SUBSET Footprint(config)
  /\ nodeModules \in
       Optional(SUBSET { extractPackageName(d) : d \in Range(Some(config.global)) })
  /\ codeCLI \in BOOLEAN
  /\ codeExtensions \in (IF codeCLI THEN SUBSET Range(config.vscode) ELSE {{}})
  /\ packageJson = None
  /\ angularJson = TRUE
  /\ SyncInit
  /\ differences = <<>>
  /\ previous = None
  /\ healthScore = 100
  /\ band = NULL
  /\ NoUpdate
  /\ pkg = <<>>
  /\ packageName = None
  /\ probeCall = None

SpecProbe == InitProbe /\ [][NextProbe]_vars

(***************************************************************************)
(* Properties                                                              *)
(***************************************************************************)
\* how often a step was recorded for an entry of the manifest
StepCount(step, target) ==
  Cardinality({ i \in DOMAIN log : log[i].step = step /\ log[i].target = target })

AnyStep(step, outcome) ==
  \E i \in DOMAIN log : log[i].step = step /\ log[i].outcome = outcome

AnyOutcome(outcome) == \E i \in DOMAIN log : log[i].outcome = outcome

RuntimeRemediationFailed ==
  AnyStep("node-install", "failed") \/ AnyStep("node-use", "failed")

\* position of the last runtime step in the log
LastRuntimeStep ==
  CHOOSE i \in DOMAIN log :
    /\ log[i].step \in {"node-install", "node-use"}
    /\ \A j \in DOMAIN log : log[j].step \in {"node-install", "node-use"} => j <= i

\* what a step records follows from its own probe and its own command alone
OwnOutcome(e) ==
  CASE e.step \in {"package-manager", "global-tool"} ->
         \/ e.probe = "present" /\ ~e.ran /\ e.outcome = "succeeded"
         \/ e.probe = "absent" /\ e.ran /\ e.outcome \in {"succeeded", "failed"}
    [] e.step = "extension" ->
         \/ e.probe = "present" /\ ~e.ran /\ e.outcome = "succeeded"
         \/ e.probe = "absent" /\ e.ran /\ e.outcome \in {"succeeded", "warned"}
    [] e.step = "post-sync" ->
         \/ ~e.ran /\ e.outcome = "skipped"
         \/ e.ran /\ e.outcome \in {"succeeded", "warned", "failed"}
    [] OTHER -> TRUE

\* the steps a run without a runtime failure records after the runtime:
\* the package manager, every global tool, every extension (the extension
\* host being there), every post-sync script, once each
LaterStepsRecorded ==
  /\ StepCount("package-manager", 0) = 1
  /\ \A i \in 1..Len(config.global) : StepCount("global-tool", i) = 1
  /\ \A i \in 1..Size(config.vscode) :
       StepCount("extension", i) = (IF codeCLI THEN 1 ELSE 0)
  /\ \A i \in 1..Size(config.postSync) : StepCount("post-sync", i) = 1

\* C1: when the version manager is there and the runtime install or the
\* activation fails, the run is not ended by it, and at the summary the
\* package manager, every global tool, every extension and every post-sync
\* script have been handled after the runtime step, each with the outcome
\* its own probe and command give, as in a run whose runtime fix succeeded.
RuntimeFailureBlocksNothing ==
  RuntimeRemediationFailed =>
    /\ pc # "exit"
    /\ exitCode # Some(1)
    /\ pc = "done" =>
         /\ LaterStepsRecorded
         /\ \A i \in DOMAIN log :
              log[i].step \in {"package-manager", "global-tool", "extension",
                               "post-sync"}
                => i > LastRuntimeStep /\ OwnOutcome(log[i])

\* a finished run whose activation failed and that installed a global tool
\* and ran a post-sync script afterwards
RuntimeFailureWitness ==
  /\ pc = "done"
  /\ AnyStep("node-use", "failed")
  /\ \E i \in DOMAIN log : log[i].step = "global-tool" /\ log[i].ran
  /\ \E i \in DOMAIN log : log[i].step = "post-sync" /\ log[i].ran

\* the place of a step in the fixed order
Group(step) ==
  CASE step = "pre-sync" -> 0
    [] step \in {"runtime", "node-install", "node-use", "nvm-setup"} -> 1
    [] step = "package-manager" -> 2
    [] step = "global-tool" -> 3
    [] step \in {"extension-host", "extension"} -> 4
    [] step = "post-sync" -> 5

\* the place of the section the run is in
PcGroup ==
  CASE pc \in {"start", "pre"} -> 0
    [] pc \in {"node", "nvm-install", "nvm-use", "prompt", "nvm-setup"} -> 1
    [] pc = "pm" -> 2
    [] pc = "tools" -> 3
    [] pc \in {"exthost", "ext"} -> 4
    [] pc = "post" -> 5
    [] pc \in {"summary", "done", "exit"} -> 6

\* every step of the section has reached a terminal outcome
SectionDone(g) ==
  CASE g = 0 -> \A i \in 1..Size(config.preSync) : StepCount("pre-sync", i) = 1
    [] g = 1 -> \E i \in DOMAIN log : log[i].step \in {"runtime", "node-use"}
    [] g = 2 -> StepCount("package-manager", 0) = 1
    [] g = 3 -> \A i \in 1..Len(config.global) : StepCount("global-tool", i) = 1
    [] g = 4 -> \/ StepCount("extension-host", 0) = 1
                \/ \A i \in 1..Size(config.vscode) : StepCount("extension", i) = 1
    [] g = 5 -> \A i \in 1..Size(config.postSync) : StepCount("post-sync", i) = 1

\* C2: the steps run in the order pre-sync scripts, runtime, package
\* manager, global tools in manifest order, extensions in manifest order,
\* post-sync scripts, and while the run is in one section no step of a
\* later section has run and every step of the earlier ones is finished.
FixedOrder ==
  /\ \A i, j \in DOMAIN log :
       i < j =>
         /\ Group(log[i].step) <= Group(log[j].step)
         /\ log[i].step = log[j].step => log[i].target < log[j].target
         /\ log[j].step = "node-install" => log[i].step # "node-use"
  /\ \A i \in DOMAIN log : Group(log[i].step) <= PcGroup
  /\ pc # "exit" => \A g \in 0..5 : g < PcGroup => SectionDone(g)

\* a finished run with a pre-sync script, a runtime fix and a post-sync script
FixedOrderWitness ==
  /\ pc = "done"
  /\ \E i \in DOMAIN log : log[i].step = "pre-sync"
  /\ \E i \in DOMAIN log : log[i].step = "node-use"
  /\ \E i \in DOMAIN log : log[i].step = "post-sync"

\* the status the outcomes of the steps add up to
AggregateStatus ==
  IF AnyOutcome("failed") THEN "failed"
  ELSE IF AnyOutcome("warned") \/ Len(issues) > 0 THEN "warned"
  ELSE "succeeded"

\* C3: at the summary the overall status is failed if a step failed, else
\* warned if a step ended warned or an issue remains, else succeeded.
StatusAggregatesOutcomes == pc = "done" => overallStatus = AggregateStatus

\* C4: a run that found the runtime to differ from the desired one with no
\* version manager there ends with the overall status failed, whatever the
\* other steps came to.
MismatchWithoutManagerFails ==
  (pc = "done" /\ \E i \in DOMAIN log :
                    log[i].step = "runtime" /\ log[i].probe = "mismatch")
    => overallStatus = "failed"

\* C5: a runtime install or activation is requested only with the version
\* manager there; once the offer to install the version manager is accepted
\* and the installer has returned, the run has ended with exit code 0 and
\* the installer is the last step it recorded, so nothing ran after it.
NoRuntimeFixWithoutManager ==
  /\ ( \/ pc \in {"nvm-install", "nvm-use"}
       \/ \E i \in DOMAIN log : log[i].step \in {"node-install", "node-use"} )
       => nvmInstalled
  /\ pc = "prompt" => ~nvmInstalled
  /\ \A i \in DOMAIN log :
       log[i].step = "nvm-setup" =>
         /\ pc = "exit"
         /\ i = Len(log)
         /\ \A j \in DOMAIN log : Group(log[j].step) <= 1
         /\ log[i].outcome # "threw" => exitCode = Some(0)

\* the installer of the version manager has returned and the run is over
ManagerInstallWitness ==
  /\ AnyStep("nvm-setup", "succeeded")
  /\ exitCode = Some(0)

\* C6: activation is requested only after the install succeeded or with the
\* version already registered, never after a failed install.
NoActivationAfterFailedInstall ==
  AnyStep("node-install", "failed") =>
    /\ pc # "nvm-use"
    /\ \A i \in DOMAIN log : log[i].step # "node-use"

\* C7: the pin file changes only in a successful activation, to the desired
\* version, and never in a run whose runtime install failed.
PinFileOnlyOnActivation ==
  [][ nvmrc' # nvmrc =>
        /\ pc = "nvm-use"
        /\ nvmrc' = Some(config.node)
        /\ nodeStdout' = Some(<<"v">> \o config.node)
        /\ ~AnyStep("node-install", "failed") ]_vars

\* an entry of a list was probed and, when the probe found nothing, installed
Attempted(step, target) ==
  \E k \in DOMAIN log :
    /\ log[k].step = step
    /\ log[k].target = target
    /\ log[k].probe = "absent" => log[k].ran

\* C8: after a failed install of a global tool or of an extension every
\* later entry of that list is attempted: it has been, or the loop is
\* still to reach it.
FailedInstallSkipsNoEntry ==
  /\ \A i, j \in 1..Len(config.global) :
       (i < j
          /\ \E k \in DOMAIN log :
               log[k].step = "global-tool" /\ log[k].target = i
               /\ log[k].outcome = "failed")
         => \/ Attempted("global-tool", j)
            \/ pc = "tools" /\ idx <= j
  /\ \A i, j \in 1..Size(config.vscode) :
       (i < j
          /\ \E k \in DOMAIN log :
               log[k].step = "extension" /\ log[k].target = i
               /\ log[k].outcome = "warned")
         => \/ Attempted("extension", j)
            \/ pc = "ext" /\ idx <= j

\* a finished run whose first global tool failed to install and whose
\* second one was installed
FailedInstallWitness ==
  /\ pc = "done"
  /\ \E k, l \in DOMAIN log :
       /\ log[k].step = "global-tool" /\ log[k].target = 1
       /\ log[k].outcome = "failed"
       /\ log[l].step = "global-tool" /\ log[l].target = 2
       /\ log[l].ran

\* C9: for every declared specifier sync issues an install exactly when the
\* tool of the specifier's base name is not on the machine.
InstallIffToolAbsent ==
  [][ pc = "tools" =>
        (log'[Len(log')].ran <=> ~hasGlobalPackage(config.global[idx])) ]_vars

\* the text before the first c
Before(s, c) ==
  SubSeq(s, 1, CHOOSE k \in 0..Len(s) :
                 /\ \A i \in 1..k : s[i] # c
                 /\ k < Len(s) => s[k + 1] = c)

\* the base name as the specification words it: with a scope marker, the
\* marker and what follows up to the next version separator; without, the
\* text before the first version separator
BaseName(s) ==
  IF StartsWith(s, "@") THEN <<"@">> \o Before(Tail(s), "@") ELSE Before(s, "@")

\* C10: extractPackageName returns the base name of every specifier, and
\* for the documented ones: "@scope/name@1.2.3" has base "@scope/name" and
\* "1.2.3" is the part split off after it, "name@latest" has base "name"
\* and "latest" split off, "name" has base "name" and "@scope/name" has base
\* "@scope/name", each of the two with nothing split off.
ParsesBaseName ==
  packageName # None =>
    /\ The(packageName) = BaseName(pkg)
    /\ pkg = ScopeName \o <<"@">> \o Tag123 =>
         The(packageName) = ScopeName /\ Split(pkg, "@") = <<<<>>, Tail(ScopeName), Tag123>>
    /\ pkg = Name \o <<"@">> \o Latest =>
         The(packageName) = Name /\ Split(pkg, "@") = <<Name, Latest>>
    /\ pkg = Name => The(packageName) = Name /\ Split(pkg, "@") = <<Name>>
    /\ pkg = ScopeName =>
         The(packageName) = ScopeName /\ Split(pkg, "@") = <<<<>>, Tail(ScopeName)>>

\* the scoped specifier without a version tag has been parsed
ParsesScopedWitness == pkg = ScopeName /\ packageName = Some(ScopeName)

\* the place of a component in the sequence runtime, version manager, pin
\* file, package manager, global tools, extension host, extensions
Rank(component) ==
  CASE component = "Node.js" -> 1
    [] component = "NVM" -> 2
    [] component = ".nvmrc file" -> 3
    [] component = "Package Manager" -> 4
    [] component = "Global" -> 5
    [] component = "VSCode CLI" -> 6
    [] component = "VSCode" -> 7

NoRecordWithoutDeclaration ==
  invoked = "diff" =>
    /\ ~Declared(config.vscode) =>
         \A i \in DOMAIN differences :
           differences[i].component \notin {"VSCode", "VSCode CLI"}
    /\ ~Declared(Some(config.global)) =>
         \A i \in DOMAIN differences : differences[i].component # "Global"

\* every comparison diff makes on this machine is a match
AllMatch == \A i \in DOMAIN Differences : Differences[i].status = "match"

\* the run has issued no corrective command yet, lifecycle scripts apart:
\* the machine is as the run found it
NothingFixedYet ==
  \A i \in DOMAIN log :
    ~log[i].ran \/ log[i].step \in {"pre-sync", "post-sync"}

\* C13: on a machine where every comparison of diff is a match, sync changes
\* nothing on the machine and issues no install, activation or other
\* corrective command (the lifecycle scripts of the manifest apart).
MatchingMachineUntouched ==
  [][ (invoked = "sync" /\ AllMatch /\ NothingFixedYet) =>
        /\ machineVars' = machineVars
        /\ log' # log =>
             \/ ~log'[Len(log')].ran
             \/ log'[Len(log')].step \in {"pre-sync", "post-sync"} ]_vars

\* tryCommand has made its checks and computed the score
Scored == invoked = "try" /\ pc \in {"try-report", "exit"} /\ manifestExists

Weight(failed, w) == IF failed THEN w ELSE 0

\* the deductions as the sum of the weights of the failing checks; the
\* extensions are checked on the extension host, so none counts as missing
\* when there is no host to ask
Deductions ==
  LET r == Checks IN
    Weight(~r.node, 20)
    + Weight(~r.nvm, 5)
    + Weight(~r.nvmrc /\ r.nvm, 5)
    + Weight(~r.pm, 15)
    + 10 * Missing(r.tools)
    + (IF r.vscode THEN 3 * Missing(r.exts) ELSE 0)
    + Weight(~r.nodeModules, 10)
    + Weight(~r.packageJson, 20)
    + Weight(~r.angularJson, 15)

Flags ==
  {"node", "nvm", "nvmrc", "pm", "vscode", "nodeModules", "packageJson",
   "angularJson"}

\* results a machine can produce: without the extension host no extension
\* is found
Producible(r) == ~r.vscode => \A i \in DOMAIN r.exts : ~r.exts[i]

\* the results that differ from r in that one more check fails
OneMoreFails(r) ==
  { q \in { [r EXCEPT ![f] = FALSE] : f \in { g \in Flags : r[g] } }
            \cup { [r EXCEPT !.tools[i] = FALSE] :
                     i \in { k \in DOMAIN r.tools : r.tools[k] } }
            \cup { [r EXCEPT !.exts[i] = FALSE] :
                     i \in { k \in DOMAIN r.exts : r.exts[k] } } :
      Producible(q) }

\* C15: the health score is monotonic: results that differ from those of
\* this machine only in that one more check fails (the version manager and
\* the extension host included) never score higher.
ScoreMonotonic ==
  Scored => \A q \in OneMoreFails(Checks) : healthScoreOf(q) <= healthScore

\* every check of tryCommand fails on this machine
AllChecksFail ==
  LET r == Checks IN
    /\ \A f \in Flags : ~r[f]
    /\ \A i \in DOMAIN r.tools : ~r.tools[i]
    /\ \A i \in DOMAIN r.exts : ~r.exts[i]

BandAndExitFollowScore ==
  (Scored /\ pc = "exit") =>
    /\ band \in {"Excellent", "Good", "Needs Attention"}
    /\ band = "Excellent" <=> healthScore >= 90
    /\ band = "Good" <=> (healthScore >= 70 /\ healthScore < 90)
    /\ exitCode \in {Some(0), Some(1)}
    /\ exitCode = Some(0) <=> band \in {"Excellent", "Good"}
    /\ exitCode = Some(1) <=> band = "Needs Attention"

\* a finished health check with the score on the lower edge of 'Good'
BandWitness ==
  /\ Scored
  /\ pc = "exit"
  /\ healthScore = 70
  /\ band = "Good"
  /\ exitCode = Some(0)

\* C18: sync ends with exit code 1 whenever a step ended failed, and with
\* exit code 0 only when no step failed.
ExitCodeReflectsFailure ==
  invoked = "sync" =>
    /\ (pc \in {"done", "exit"} /\ AnyOutcome("failed")) => exitCode = Some(1)
    /\ exitCode = Some(0) => ~AnyOutcome("failed")

\* envsync.yaml is missing or its project type is not the supported one
PreconditionFailed == ~manifestExists \/ config.type # Angular

\* C19: with the manifest missing or of an unsupported project type, sync,
\* diff and the health check end with exit code 1 straight from their
\* first lines: no probe is made, no command run, no record or score
\* produced.
PreconditionFailureExitsFirst ==
  PreconditionFailed =>
    /\ pc \in {"start", "exit"}
    /\ pc = "exit" => exitCode = Some(1)
    /\ log = <<>>
    /\ differences = <<>>
    /\ band = NULL

\* C20: a lifecycle script that fails never ends the run: after a failed
\* pre-sync or post-sync script the run is not aborted, and at the summary
\* every script and every later step has been handled.
ScriptFailureNeverAborts ==
  (AnyStep("pre-sync", "failed") \/ AnyStep("post-sync", "failed")) =>
    /\ pc # "exit"
    /\ exitCode # Some(1)
    /\ pc = "done" =>
         /\ \A i \in 1..Size(config.preSync) : StepCount("pre-sync", i) = 1
         /\ \A i \in 1..Size(config.postSync) : StepCount("post-sync", i) = 1
         /\ StepCount("package-manager", 0) = 1

\* the script a pre-sync or post-sync log entry is about
ScriptOf(e) ==
  IF e.step = "pre-sync"
    THEN The(config.preSync)[e.target]
    ELSE The(config.postSync)[e.target]

ScriptEntries == { i \in DOMAIN log : log[i].step \in {"pre-sync", "post-sync"} }

\* C21: a pre-sync or post-sync script on the non-fatal allow-list that
\* exits non-zero is recorded as warned, not failed, and does not make the
\* run fail; a script off the allow-list that exits non-zero is recorded
\* as failed.
AllowListedFailureWarns ==
  \A i \in ScriptEntries :
    (log[i].ran /\ log[i].outcome # "succeeded") =>
      IF IncludesAuditFix(ScriptOf(log[i]))
        THEN /\ log[i].outcome = "warned"
             /\ (\A j \in DOMAIN log : j # i => log[j].outcome = "succeeded")
                  => (exitCode # Some(1) /\ overallStatus # "failed")
        ELSE log[i].outcome = "failed"

\* cmd === "npx" && args[0] === "husky"
IsHuskyCommand(script) ==
  Len(script) > 1 /\ script[1] = "npx" /\ script[2] = "husky"

HuskyDeclared == packageJson # None /\ "husky" \in The(packageJson)

\* C22: the husky command among the post-sync scripts is skipped, with an
\* informational outcome and no failure, whenever package.json declares no
\* husky dependency, also when there is no package.json; it is executed
\* only when the dependency is declared.
HuskySkippedUnlessDeclared ==
  \A i \in DOMAIN log :
    (log[i].step = "post-sync" /\ IsHuskyCommand(ScriptOf(log[i]))) =>
      /\ ~HuskyDeclared => (~log[i].ran /\ log[i].outcome = "skipped")
      /\ log[i].ran => HuskyDeclared

\* the step in which the user answers no to "Would you like to install nvm
\* now?" (sync) or to "Update envsync.yaml with these changes?" (update)
Declines ==
  \/ pc = "prompt" /\ pc' # "nvm-setup"
  \/ pc = "update-confirm" /\ written' = None

\* C23: when the user declines the version-manager install offer of sync or
\* the rewrite offer of update, the run ends at once with a neutral
\* result: exit code 0 and no probe, remediation step, manifest write or
\* script after the refusal.
DeclineEndsRun ==
  [][ Declines =>
        /\ pc' \in {"done", "exit"}
        /\ exitCode' = Some(0)
        /\ written' = written
        /\ machineVars' = machineVars ]_vars

\* the fields of a manifest that updateCommand computes no change for
Untouched(m) ==
  [ name |-> m.name, type |-> m.type, vscode |-> m.vscode,
    preSync |-> m.preSync, postSync |-> m.postSync ]

\* the version tag of runtime.packageManager, empty when there is none
PmTag(m) ==
  IF Includes(m.packageManager, "@")
    THEN Split(m.packageManager, "@")[2]
    ELSE <<>>

\* the global tools other than the framework CLI entry
OtherTools(m) ==
  SelectSeq(m.global, LAMBDA d : extractPackageName(d) # AngularCli)

Changed == { updates[i] : i \in DOMAIN updates }

\* C29: a rewrite by update changes only the fields it computed a change
\* for: the package-manager version tag, the global tools other than the
\* framework CLI entry, the extensions, the scripts, the project name and
\* type, and every compared field without a change keep their values; and
\* nothing is written when no change was computed.
RewriteChangesOnlyDeltas ==
  (invoked = "update" /\ written # None) =>
    LET new == The(written) IN
      /\ updates # <<>>
      /\ Untouched(new) = Untouched(config)
      /\ PmTag(new) = PmTag(config)
      /\ OtherTools(new) = OtherTools(config)
      /\ "angularVersion" \notin Changed => new.angularVersion = config.angularVersion
      /\ "node" \notin Changed => new.node = config.node
      /\ "packageManager" \notin Changed => new.packageManager = config.packageManager
      /\ "cli" \notin Changed => new.global = config.global

\* C24: no probe faults: when the external command of a probe fails, the
\* probe returns its absent value (null or false) and no error reaches the
\* caller.
FailedProbeAnswersAbsent ==
  (probeCall # None /\ The(probeCall).rejected) =>
    The(probeCall).answer = "absent"

\* C24, amended: no probe faults: no call of a probe ends in an error, and
\* when its external command fails the probe returns its absent value
\* (null or false), except the global-tool probe, which then answers from
\* the local node_modules: present when the package is installed there.
ProbesNeverFault ==
  probeCall # None =>
    LET call == The(probeCall) IN
      /\ call.answer \in {"present", "absent"}
      /\ (call.rejected /\ call.probe # "hasGlobalPackage") =>
           call.answer = "absent"
      /\ (call.rejected /\ call.probe = "hasGlobalPackage") =>
           (call.answer = "present" <=>
              hasLocalPackage(extractPackageName(config.global[call.target])))

\* the command of the global-tool probe failed and the probe answered
\* present from the local node_modules
LocalFallbackWitness ==
  /\ probeCall # None
  /\ The(probeCall).probe = "hasGlobalPackage"
  /\ The(probeCall).rejected
  /\ The(probeCall).answer = "present"

DiffAndTryReadOnly ==
  [][ (invoked = "diff" \/ invoked = "try") =>
        /\ machineVars' = machineVars
        /\ angularJson' = angularJson
        /\ manifestExists' = manifestExists
        /\ written' = written
        /\ config' = config
        /\ log' = log ]_vars

\* a diff run has finished that found no pin file, and none is there after
DiffReadOnlyWitness ==
  /\ invoked = "diff"
  /\ pc = "done"
  /\ nvmrc = None
  /\ \E i \in DOMAIN differences :
       differences[i].component = ".nvmrc file"
         /\ differences[i].status = "missing"

\* the present/absent decision of diff and of the health check for the
\* i-th declared global tool, on the machine as it is
DiffFinds(i) == GlobalDifferences[i].status = "match"
TryFinds(i) == Checks.tools[i]

\* C27: on the same machine and for the same declared global-tool
\* specifier, diff, the health check and sync reach the same present/absent
\* decision.
SameToolDecision ==
  [][ /\ \A i \in DOMAIN config.global : DiffFinds(i) <=> TryFinds(i)
      /\ pc = "tools" =>
           (log'[Len(log')].probe = "present" <=> DiffFinds(idx)) ]_vars

\* every external command the run issued succeeded
AllCommandsSucceeded ==
  \A i \in DOMAIN log : log[i].ran => log[i].outcome = "succeeded"

\* C28: sync converges the machine to the manifest: with the version
\* manager and the extension host present and every command sync issues
\* succeeding, a diff run right after the sync run reports match for every
\* check, the pin-file check included.
SyncConverges ==
  (invoked = "sync" /\ pc = "done" /\ hasNVM /\ hasVSCodeCLI
     /\ AllCommandsSucceeded)
    => AllMatch

\* the runtime probe answered that no runtime is installed
RuntimeMissing ==
  \E i \in DOMAIN log : log[i].step = "runtime" /\ log[i].probe = "missing"

\* C30: when the runtime probe finds no runtime at all, sync ends with exit
\* code 1 at the runtime step: no package-manager, global-tool, extension
\* or post-sync step is executed, while the pre-sync scripts have all been
\* executed before.
MissingRuntimeEndsRun ==
  RuntimeMissing =>
    /\ pc = "exit"
    /\ exitCode = Some(1)
    /\ log[Len(log)].step = "runtime"
    /\ \A i \in 1..(Len(log) - 1) :
         log[i].step = "pre-sync" /\ log[i].ran /\ log[i].outcome = "succeeded"
    /\ \A i \in 1..Size(config.preSync) : StepCount("pre-sync", i) = 1

\* a run that ended at the runtime step after a pre-sync script, with a
\* global tool still to be handled
MissingRuntimeWitness ==
  /\ RuntimeMissing
  /\ pc = "exit"
  /\ Len(log) = 2
  /\ log[1].step = "pre-sync"
  /\ Len(config.global) > 0

====
